---- MODULE Spec2Model ----
(***************************************************************************)
(* aiida.orm.calculation.Calculation: the lifecycle state attribute, the   *)
(* state-scoped attribute writers, the link guards, validate() and         *)
(* store(), for one calculation node.                                      *)
(*                                                                         *)
(* Python values are encoded as tagged tuples, so that isinstance(), int() *)
(* and unicode() can be computed as Python computes them.                  *)
(***************************************************************************)
EXTENDS Integers, Sequences, FiniteSets, TLC

VARIABLES
    attrs,         \* the node's attributes: key -> Python value, or Absent
    computer,      \* dbnode.computer: a computer name, or NoComputer
    stored,        \* TRUE once the node is stored (not self._to_be_stored)
    input_links,   \* label -> node linked as input under that label, or NoNode
    output_links,  \* set of <<destination node, label>>
    last,          \* the last call made on the calculation and how it ended
    procs,         \* concurrent callers: process -> its call and position in it
    overlap,       \* TRUE once two callers were inside a guarded writer at once
    submission,    \* the submit() under way: its position, its delegation attempts
    node_label,    \* the node's label
    raw_input,     \* the 'raw_input' subfolder of the node's folder in the repository
    utils          \* aiida.common.utils: the call under way, the module's cache

vars ==
    <<attrs, computer, stored, input_links, output_links, last, procs, overlap,
      submission, node_label, raw_input, utils>>

\* everything that belongs to the calculation
calculation ==
    <<attrs, computer, stored, input_links, output_links, last, procs, overlap,
      submission, node_label, raw_input>>

node == <<attrs, computer, stored, input_links, output_links>>

(***************************************************************************)
(* Bounds of the model.                                                    *)
(***************************************************************************)
MaxJobId == 2       \* scheduler job ids are 1..MaxJobId
MaxMachines == 1    \* resource counts are drawn from -1..MaxMachines

(***************************************************************************)
(* Python values.                                                          *)
(***************************************************************************)
PyNone == <<"none">>
PyStr(s) == <<"str", s>>
PyInt(n) == <<"int", n>>
PyList(q) == <<"list", q>>
Absent == <<"absent">>

isinstance(v, tags) == v[1] \in tags

\* unicode(x): the text of x
unicode(v) ==
    IF v[1] = "int" THEN PyStr(ToString(v[2])) ELSE
    IF v[1] = "none" THEN PyStr("None") ELSE v

IntRange == (0 - 1)..MaxMachines

\* int(x): x for an integer, the number a string spells, else an exception
int(v) ==
    IF v[1] = "int" THEN v ELSE
    IF v[1] = "str"
      THEN IF \E n \in IntRange : ToString(n) = v[2]
             THEN PyInt(CHOOSE n \in IntRange : ToString(n) = v[2])
             ELSE <<"raise", "ValueError">>
      ELSE <<"raise", "TypeError">>

\* pickle.dumps / pickle.loads
pickle_dumps(v) == <<"pickled", v>>
pickle_loads(p) == p[2]

(***************************************************************************)
(* aiida.common.datastructures.calc_states                                 *)
(***************************************************************************)
S_NEW == PyStr("NEW")
S_SUBMITTING == PyStr("SUBMITTING")
S_WITHSCHEDULER == PyStr("WITHSCHEDULER")
S_RETRIEVING == PyStr("RETRIEVING")
S_PARSING == PyStr("PARSING")
S_FINISHED == PyStr("FINISHED")
S_SUBMISSIONFAILED == PyStr("SUBMISSION_FAILED")
S_RETRIEVALFAILED == PyStr("RETRIEVAL_FAILED")
S_PARSINGFAILED == PyStr("PARSING_FAILED")
S_IMPORTED == PyStr("IMPORTED")

calc_states ==
    {S_NEW, S_SUBMITTING, S_WITHSCHEDULER, S_RETRIEVING, S_PARSING, S_FINISHED,
     S_SUBMISSIONFAILED, S_RETRIEVALFAILED, S_PARSINGFAILED, S_IMPORTED}

(***************************************************************************)
(* Node: attributes                                                        *)
(***************************************************************************)
\* a resource key listed among the updatable attributes
_updatable_attributes_with_resource ==
    {"state", "job_id", "scheduler_state", "last_jobinfo", "remote_workdir",
     "retrieve_list", "num_machines"}

_updatable_attributes ==
    {"state", "job_id", "scheduler_state", "last_jobinfo", "remote_workdir",
     "retrieve_list"}

ResourceKeys ==
    {"queue_name", "priority", "max_memory_kb", "max_wallclock_seconds",
     "num_machines", "num_cpus_per_machine"}

Keys == _updatable_attributes \cup ResourceKeys

get_attr(key, default) == IF attrs[key] = Absent THEN default ELSE attrs[key]

Ok(op, arg) == last' = [op |-> op, arg |-> arg, res |-> "ok"]

\* an exception leaves the operation; nothing was written before it
Raise(op, arg, exc) ==
    /\ last' = [op |-> op, arg |-> arg, res |-> exc]
    /\ UNCHANGED node

\* Node.set_attr, called by operation op
set_attr(op, arg, key, value) ==
    IF stored /\ key \notin _updatable_attributes
      THEN Raise(op, arg, "FrozenAttributeError")
      ELSE /\ attrs' = [attrs EXCEPT ![key] = value]
           /\ Ok(op, arg)
           /\ UNCHANGED <<computer, stored, input_links, output_links>>

get_state == get_attr("state", PyNone)
get_job_id == get_attr("job_id", PyNone)
get_remote_workdir == get_attr("remote_workdir", PyNone)
get_retrieve_list == get_attr("retrieve_list", PyNone)
get_scheduler_state == get_attr("scheduler_state", PyNone)
get_num_machines == get_attr("num_machines", PyNone)
get_num_cpus_per_machine == get_attr("num_cpus_per_machine", PyNone)
get_queue_name == get_attr("queue_name", PyNone)
get_priority == get_attr("priority", PyNone)
get_max_memory_kb == get_attr("max_memory_kb", PyNone)
get_max_wallclock_seconds == get_attr("max_wallclock_seconds", PyNone)

(***************************************************************************)
(* Calculation: the lifecycle writers                                      *)
(***************************************************************************)
StateArgs == calc_states \cup {PyStr("QUEUED")}

\* the membership test left out
_set_state_unchecked(state) ==
    /\ UNCHANGED <<procs, overlap, submission, node_label, raw_input, utils>>
    /\ set_attr("_set_state", state, "state", state)

_set_state(state) ==
    /\ UNCHANGED <<procs, overlap, submission, node_label, raw_input, utils>>
    /\ IF state \notin calc_states
         THEN Raise("_set_state", state, "ValueError")
         ELSE set_attr("_set_state", state, "state", state)

\* the guard also lets the write through while the results are retrieved
_set_remote_workdir_retrieving(remote_workdir) ==
    /\ UNCHANGED <<procs, overlap, submission, node_label, raw_input, utils>>
    /\ IF get_state \notin {S_SUBMITTING, S_RETRIEVING}
         THEN Raise("_set_remote_workdir", remote_workdir, "ModificationNotAllowed")
         ELSE set_attr("_set_remote_workdir", remote_workdir, "remote_workdir",
                       remote_workdir)

_set_remote_workdir(remote_workdir) ==
    /\ UNCHANGED <<procs, overlap, submission, node_label, raw_input, utils>>
    /\ IF get_state # S_SUBMITTING
         THEN Raise("_set_remote_workdir", remote_workdir, "ModificationNotAllowed")
         ELSE set_attr("_set_remote_workdir", remote_workdir, "remote_workdir",
                       remote_workdir)

\* isinstance(retrieve_list, (tuple, list)) and all(isinstance(i, basestring) ...)
IsListOfStrings(v) ==
    /\ isinstance(v, {"list"})
    /\ \A i \in 1..Len(v[2]) : isinstance(v[2][i], {"str"})

\* the value tested before the state
_set_retrieve_list_value_first(retrieve_list) ==
    /\ UNCHANGED <<procs, overlap, submission, node_label, raw_input, utils>>
    /\ IF ~IsListOfStrings(retrieve_list)
         THEN Raise("_set_retrieve_list", retrieve_list, "ValueError")
         ELSE IF get_state # S_SUBMITTING
                THEN Raise("_set_retrieve_list", retrieve_list, "ModificationNotAllowed")
                ELSE set_attr("_set_retrieve_list", retrieve_list, "retrieve_list",
                              retrieve_list)

_set_retrieve_list(retrieve_list) ==
    /\ UNCHANGED <<procs, overlap, submission, node_label, raw_input, utils>>
    /\ IF get_state # S_SUBMITTING
         THEN Raise("_set_retrieve_list", retrieve_list, "ModificationNotAllowed")
         ELSE IF ~IsListOfStrings(retrieve_list)
                THEN Raise("_set_retrieve_list", retrieve_list, "ValueError")
                ELSE set_attr("_set_retrieve_list", retrieve_list, "retrieve_list",
                              retrieve_list)

\* the guard also lets the write through once the job is with the scheduler
_set_job_id_late(job_id) ==
    /\ UNCHANGED <<procs, overlap, submission, node_label, raw_input, utils>>
    /\ IF get_state \notin {S_SUBMITTING, S_WITHSCHEDULER}
         THEN Raise("_set_job_id", job_id, "ModificationNotAllowed")
         ELSE set_attr("_set_job_id", job_id, "job_id", unicode(job_id))

\* the write let through with the scheduler, in place of while submitting
_set_job_id_at_withscheduler(job_id) ==
    /\ UNCHANGED <<procs, overlap, submission, node_label, raw_input, utils>>
    /\ IF get_state # S_WITHSCHEDULER
         THEN Raise("_set_job_id", job_id, "ModificationNotAllowed")
         ELSE set_attr("_set_job_id", job_id, "job_id", unicode(job_id))

_set_job_id(job_id) ==
    /\ UNCHANGED <<procs, overlap, submission, node_label, raw_input, utils>>
    /\ IF get_state # S_SUBMITTING
         THEN Raise("_set_job_id", job_id, "ModificationNotAllowed")
         ELSE set_attr("_set_job_id", job_id, "job_id", unicode(job_id))

\* the write guarded as the job id is
_set_scheduler_state_submitting(state) ==
    /\ UNCHANGED <<procs, overlap, submission, node_label, raw_input, utils>>
    /\ IF get_state # S_SUBMITTING
         THEN Raise("_set_scheduler_state", state, "ModificationNotAllowed")
         ELSE set_attr("_set_scheduler_state", state, "scheduler_state",
                       unicode(state))

_set_scheduler_state(state) ==
    /\ UNCHANGED <<procs, overlap, submission, node_label, raw_input, utils>>
    /\ set_attr("_set_scheduler_state", state, "scheduler_state", unicode(state))

_set_last_jobinfo(last_jobinfo) ==
    /\ UNCHANGED <<procs, overlap, submission, node_label, raw_input, utils>>
    /\ set_attr("_set_last_jobinfo", last_jobinfo, "last_jobinfo",
                pickle_dumps(last_jobinfo))

\* the pickled string returned as it is stored
get_last_jobinfo_pickled == get_attr("last_jobinfo", PyNone)

get_last_jobinfo ==
    IF get_attr("last_jobinfo", PyNone) # PyNone
      THEN pickle_loads(get_attr("last_jobinfo", PyNone))
      ELSE PyNone

(***************************************************************************)
(* Calculation: the raw input folder                                       *)
(***************************************************************************)
NoFolder == "no folder"
EmptyFolder == "empty folder"
FolderPaths == {"/tmp/in1", "/tmp/in2"}

\* the subfolder created before the state is tested
_store_raw_input_folder_create_first(folder_path) ==
    /\ UNCHANGED <<procs, overlap, submission, node_label, utils>>
    /\ IF get_state # S_SUBMITTING
         THEN /\ raw_input' = IF raw_input = NoFolder THEN EmptyFolder ELSE raw_input
              /\ Raise("_store_raw_input_folder", PyStr(folder_path),
                       "ModificationNotAllowed")
         ELSE /\ raw_input' = folder_path
              /\ Ok("_store_raw_input_folder", PyStr(folder_path))
              /\ UNCHANGED node

\* get_subfolder('raw_input', create=True).replace_with_folder(folder_path):
\* the subfolder holds a copy of the content of folder_path
_store_raw_input_folder(folder_path) ==
    /\ UNCHANGED <<procs, overlap, submission, node_label, utils>>
    /\ IF get_state # S_SUBMITTING
         THEN /\ Raise("_store_raw_input_folder", PyStr(folder_path),
                       "ModificationNotAllowed")
              /\ UNCHANGED raw_input
         ELSE /\ raw_input' = folder_path
              /\ Ok("_store_raw_input_folder", PyStr(folder_path))
              /\ UNCHANGED node

\* the property raw_input_folder: the subfolder, or NotExistent
raw_input_folder ==
    /\ UNCHANGED <<procs, overlap, submission, node_label, raw_input, utils>>
    /\ IF raw_input # NoFolder
         THEN Ok("raw_input_folder", PyStr(raw_input)) /\ UNCHANGED node
         ELSE Raise("raw_input_folder", PyNone, "NotExistent")

(***************************************************************************)
(* Calculation: the resource setters                                       *)
(***************************************************************************)
\* set_attr(key, int(val)): int() may raise before anything is written
set_int_attr(op, key, val) ==
    IF int(val)[1] = "raise"
      THEN Raise(op, val, int(val)[2])
      ELSE set_attr(op, val, key, int(val))

set_queue_name(val) ==
    /\ UNCHANGED <<procs, overlap, submission, node_label, raw_input, utils>>
    /\ set_attr("set_queue_name", val, "queue_name", unicode(val))

set_priority(val) ==
    /\ UNCHANGED <<procs, overlap, submission, node_label, raw_input, utils>>
    /\ set_attr("set_priority", val, "priority", unicode(val))

set_max_memory_kb(val) ==
    /\ UNCHANGED <<procs, overlap, submission, node_label, raw_input, utils>>
    /\ set_int_attr("set_max_memory_kb", "max_memory_kb", val)

set_max_wallclock_seconds(val) ==
    /\ UNCHANGED <<procs, overlap, submission, node_label, raw_input, utils>>
    /\ set_int_attr("set_max_wallclock_seconds", "max_wallclock_seconds", val)

set_num_machines(val) ==
    /\ UNCHANGED <<procs, overlap, submission, node_label, raw_input, utils>>
    /\ set_int_attr("set_num_machines", "num_machines", val)

set_num_cpus_per_machine(val) ==
    /\ UNCHANGED <<procs, overlap, submission, node_label, raw_input, utils>>
    /\ set_int_attr("set_num_cpus_per_machine", "num_cpus_per_machine", val)

(***************************************************************************)
(* Calculation: the computer, validate() and store()                       *)
(***************************************************************************)
NoComputer == "no computer"
Computers == {"localhost", "cluster"}

set_computer(c) ==
    /\ UNCHANGED <<procs, overlap, submission, node_label, raw_input, utils>>
    /\ IF ~stored
         THEN /\ computer' = c
              /\ Ok("set_computer", PyStr(c))
              /\ UNCHANGED <<attrs, stored, input_links, output_links>>
         ELSE Raise("set_computer", PyStr(c), "ModificationNotAllowed")

\* Computer(dbcomputer=self.dbnode.computer): a Computer object around the
\* database row, also when there is no row
get_computer == <<"Computer", computer>>

\* int(x) <= 0, or int(x) raised: the "raise ValueError" of validate()
NotPositive(v) ==
    IF int(v)[1] = "raise" THEN TRUE ELSE int(v)[2] <= 0

\* the CPU count tested with < 0 in place of <= 0
validate_zero_cpus ==
    IF get_computer = PyNone THEN "You did not specify any computer" ELSE
    IF get_state \notin calc_states THEN "Calculation state is not valid" ELSE
    IF NotPositive(get_num_machines)
      THEN "The number of machines must be specified and must be positive" ELSE
    IF int(get_num_cpus_per_machine)[1] = "raise" \/ int(get_num_cpus_per_machine)[2] < 0
      THEN "The number of CPUs per machine must be specified and must be positive"
      ELSE "ok"

\* the test of the number of machines left out
validate_no_machines ==
    IF get_computer = PyNone THEN "You did not specify any computer" ELSE
    IF get_state \notin calc_states THEN "Calculation state is not valid" ELSE
    IF NotPositive(get_num_cpus_per_machine)
      THEN "The number of CPUs per machine must be specified and must be positive"
      ELSE "ok"

\* "ok", or the message of the ValidationError raised
validate ==
    IF get_computer = PyNone THEN "You did not specify any computer" ELSE
    IF get_state \notin calc_states THEN "Calculation state is not valid" ELSE
    IF NotPositive(get_num_machines)
      THEN "The number of machines must be specified and must be positive" ELSE
    IF NotPositive(get_num_cpus_per_machine)
      THEN "The number of CPUs per machine must be specified and must be positive"
      ELSE "ok"

\* Node.store(): validate, then persist; a stored node is not stored again
store ==
    /\ UNCHANGED <<procs, overlap, submission, node_label, raw_input, utils>>
    /\ IF stored
         THEN Raise("store", PyNone, "ModificationNotAllowed")
         ELSE IF validate # "ok"
                THEN Raise("store", PyStr(validate), "ValidationError")
                ELSE /\ stored' = TRUE
                     /\ Ok("store", PyNone)
                     /\ UNCHANGED <<attrs, computer, input_links, output_links>>

(***************************************************************************)
(* Calculation: links                                                      *)
(***************************************************************************)
NoNode == "no node"
DataNodes == {"data1", "data2"}
CodeNodes == {"code1", "code2"}
CalcNodes == {"calc2"}
Nodes == DataNodes \cup CodeNodes \cup CalcNodes
Labels == {"structure", "code"}
OutLabels == {"remote_folder"}

LinkArg(n, label) == <<"link", n, label>>

\* Node.add_link_from: bind label to src; a label bound to another node stays
Node_add_link_from(op, src, label) ==
    IF input_links[label] \notin {NoNode, src}
      THEN Raise(op, LinkArg(src, label), "ModificationNotAllowed")
      ELSE /\ input_links' = [input_links EXCEPT ![label] = src]
           /\ Ok(op, LinkArg(src, label))
           /\ UNCHANGED <<attrs, computer, stored, output_links>>

\* SUBMITTING listed among the valid states
add_link_from_submitting(src, label) ==
    /\ UNCHANGED <<procs, overlap, submission, node_label, raw_input, utils>>
    /\ IF src \notin DataNodes \cup CodeNodes
         THEN Raise("add_link_from", LinkArg(src, label), "ValueError")
         ELSE IF get_state \notin {S_NEW, S_SUBMITTING}
                THEN Raise("add_link_from", LinkArg(src, label),
                           "ModificationNotAllowed")
                ELSE Node_add_link_from("add_link_from", src, label)

\* "state in valid_states" in place of "state not in valid_states"
add_link_from_inverted(src, label) ==
    /\ UNCHANGED <<procs, overlap, submission, node_label, raw_input, utils>>
    /\ IF src \notin DataNodes \cup CodeNodes
         THEN Raise("add_link_from", LinkArg(src, label), "ValueError")
         ELSE IF get_state \in {S_NEW}
                THEN Raise("add_link_from", LinkArg(src, label),
                           "ModificationNotAllowed")
                ELSE Node_add_link_from("add_link_from", src, label)

\* the state tested before the kind of the source
add_link_from_state_first(src, label) ==
    /\ UNCHANGED <<procs, overlap, submission, node_label, raw_input, utils>>
    /\ IF get_state \notin {S_NEW}
         THEN Raise("add_link_from", LinkArg(src, label), "ModificationNotAllowed")
         ELSE IF src \notin DataNodes \cup CodeNodes
                THEN Raise("add_link_from", LinkArg(src, label), "ValueError")
                ELSE Node_add_link_from("add_link_from", src, label)

add_link_from(src, label) ==
    /\ UNCHANGED <<procs, overlap, submission, node_label, raw_input, utils>>
    /\ IF src \notin DataNodes \cup CodeNodes
         THEN Raise("add_link_from", LinkArg(src, label), "ValueError")
         ELSE IF get_state \notin {S_NEW}
                THEN Raise("add_link_from", LinkArg(src, label),
                           "ModificationNotAllowed")
                ELSE Node_add_link_from("add_link_from", src, label)

\* Node.can_link_as_output: the base class accepts the link
Node_can_link_as_output(dest) == "ok"

\* WITHSCHEDULER listed among the valid states
can_link_as_output_withscheduler(dest) ==
    IF dest \notin DataNodes THEN "ValueError" ELSE
    IF get_state \notin {S_SUBMITTING, S_WITHSCHEDULER, S_RETRIEVING, S_PARSING}
      THEN "ModificationNotAllowed"
      ELSE Node_can_link_as_output(dest)

\* the state tested before the kind of the destination
can_link_as_output_state_first(dest) ==
    IF get_state \notin {S_SUBMITTING, S_RETRIEVING, S_PARSING}
      THEN "ModificationNotAllowed" ELSE
    IF dest \notin DataNodes THEN "ValueError"
      ELSE Node_can_link_as_output(dest)

\* "ok", or the exception raised
can_link_as_output(dest) ==
    IF dest \notin DataNodes THEN "ValueError" ELSE
    IF get_state \notin {S_SUBMITTING, S_RETRIEVING, S_PARSING}
      THEN "ModificationNotAllowed"
      ELSE Node_can_link_as_output(dest)

\* dest.add_link_from(self, label): the destination asks the calculation
\* whether it may be linked as its output, then records the link
link_as_output(dest, label) ==
    /\ UNCHANGED <<procs, overlap, submission, node_label, raw_input, utils>>
    /\ IF can_link_as_output(dest) # "ok"
         THEN Raise("link_as_output", LinkArg(dest, label), can_link_as_output(dest))
         ELSE /\ output_links' = output_links \cup {<<dest, label>>}
              /\ Ok("link_as_output", LinkArg(dest, label))
              /\ UNCHANGED <<attrs, computer, stored, input_links>>

\* Node.replace_link_from: the link is attached as self.add_link_from attaches
\* it, in NEW only; a link already under the label gives way to the new one
Node_replace_link_from(op, src, l) ==
    IF get_state \notin {S_NEW}
      THEN Raise(op, LinkArg(src, l), "ModificationNotAllowed")
      ELSE /\ input_links' = [input_links EXCEPT ![l] = src]
           /\ Ok(op, LinkArg(src, l))
           /\ UNCHANGED <<attrs, computer, stored, output_links>>

get_linkname_code == "code"

\* the test of the kind of the argument left out
use_code_any_node(code) ==
    /\ UNCHANGED <<procs, overlap, submission, node_label, raw_input, utils>>
    /\ Node_replace_link_from("use_code", code, get_linkname_code)

use_code(code) ==
    /\ UNCHANGED <<procs, overlap, submission, node_label, raw_input, utils>>
    /\ IF code \notin CodeNodes
         THEN Raise("use_code", LinkArg(code, get_linkname_code), "ValueError")
         ELSE Node_replace_link_from("use_code", code, get_linkname_code)

(***************************************************************************)
(* Calculation.submit(): aiida.execmanager.submit_calc.  The call tests    *)
(* the calculation, moves it to SUBMITTING and hands it to the execution   *)
(* manager; the outcome of that delegation ends the call.                  *)
(***************************************************************************)
submit_calc ==
    /\ UNCHANGED <<procs, overlap, node_label, raw_input, utils>>
    /\ IF get_state # S_NEW
         THEN Raise("submit", PyNone, "ModificationNotAllowed") /\ UNCHANGED submission
         ELSE IF validate # "ok"
                THEN Raise("submit", PyStr(validate), "ValidationError")
                       /\ UNCHANGED submission
                ELSE /\ attrs' = [attrs EXCEPT !["state"] = S_SUBMITTING]
                     /\ submission' = [pc |-> "delegating", attempts |-> 0]
                     /\ last' = [op |-> "submit", arg |-> PyNone, res |-> "delegating"]
                     /\ UNCHANGED <<computer, stored, input_links, output_links>>

submit == submit_calc

DelegationOutcomes == {"ok", "SubmissionError"}

\* the execution manager accepted the calculation, or the delegation failed:
\* the calculation is marked SUBMISSION_FAILED and the error reaches the caller
delegation_ends(outcome) ==
    /\ submission.pc = "delegating"
    /\ UNCHANGED <<procs, overlap, node_label, raw_input, utils>>
    /\ last' = [op |-> "submit", arg |-> PyNone, res |-> outcome]
    /\ UNCHANGED <<computer, stored, input_links, output_links>>
    /\ IF outcome = "ok"
         THEN /\ submission' = [pc |-> "submitted", attempts |-> submission.attempts + 1]
              /\ UNCHANGED attrs
         ELSE /\ submission' = [pc |-> "failed", attempts |-> submission.attempts + 1]
              /\ attrs' = [attrs EXCEPT !["state"] = S_SUBMISSIONFAILED]

(***************************************************************************)
(* Callers in separate processes (a user script, the daemon): a guarded    *)
(* call first reads the state and tests it, and writes in a later step.    *)
(***************************************************************************)
Procs == {"user", "daemon"}

ConcCalls ==
    {<<"_set_job_id", PyInt(j)>> : j \in 1..MaxJobId}
      \cup {<<"_set_remote_workdir", PyStr("/scratch/run")>>,
            <<"add_link_from", "data1", "structure">>,
            <<"link_as_output", "data1", "remote_folder">>}

\* the test a guarded call makes of self.get_state(): "ok", or the exception
Guard(c) ==
    IF c[1] \in {"_set_job_id", "_set_remote_workdir"}
      THEN IF get_state # S_SUBMITTING THEN "ModificationNotAllowed" ELSE "ok"
      ELSE IF c[1] = "add_link_from"
             THEN IF get_state \notin {S_NEW} THEN "ModificationNotAllowed" ELSE "ok"
             ELSE can_link_as_output(c[2])

\* what the call does once its test has passed
Write(c) ==
    IF c[1] = "_set_job_id"
      THEN set_attr("_set_job_id", c[2], "job_id", unicode(c[2]))
      ELSE IF c[1] = "_set_remote_workdir"
             THEN set_attr("_set_remote_workdir", c[2], "remote_workdir", c[2])
             ELSE IF c[1] = "add_link_from"
                    THEN Node_add_link_from("add_link_from", c[2], c[3])
                    ELSE /\ output_links' = output_links \cup {<<c[2], c[3]>>}
                         /\ Ok("link_as_output", LinkArg(c[2], c[3]))
                         /\ UNCHANGED <<attrs, computer, stored, input_links>>

\* process p enters call c and tests the state
Enter(p, c) ==
    /\ procs[p].pc = "idle"
    /\ procs' = [procs EXCEPT ![p] =
                   [pc |-> IF Guard(c) = "ok" THEN "commit" ELSE "done",
                    call |-> c, res |-> Guard(c)]]
    /\ overlap' = (overlap \/ (Guard(c) = "ok" /\ \E q \in Procs \ {p} : procs[q].pc = "commit"))
    /\ UNCHANGED <<node, last, submission, node_label, raw_input, utils>>

\* process p, whose test passed, writes
Commit(p) ==
    /\ procs[p].pc = "commit"
    /\ Write(procs[p].call)
    /\ procs' = [procs EXCEPT ![p] = [pc |-> "done", call |-> procs[p].call, res |-> last'.res]]
    /\ UNCHANGED <<overlap, submission, node_label, raw_input, utils>>

(***************************************************************************)
(* Calculation.__init__ with a uuid: an object for the stored calculation  *)
(***************************************************************************)
Uuids == {"uuid1"}
DefaultLabel == "Calculation uuid1"
LabelArgs == {"Test QE pw.x"}

\* Node.set_label, on a node not yet stored
set_label(l) ==
    /\ ~stored
    /\ node_label' = l
    /\ Ok("set_label", PyStr(l))
    /\ UNCHANGED <<node, procs, overlap, submission, raw_input, utils>>

\* the writes of a new calculation made on the loaded one as well
__init___without_return(uuid) ==
    /\ stored
    /\ attrs' = [attrs EXCEPT !["state"] = S_NEW]
    /\ node_label' = DefaultLabel
    /\ Ok("__init__", PyStr(uuid))
    /\ UNCHANGED <<computer, stored, input_links, output_links>>
    /\ UNCHANGED <<procs, overlap, submission, raw_input, utils>>

\* Node.__init__ loads the stored node; "if uuid is not None: return"
__init__(uuid) ==
    /\ stored
    /\ Ok("__init__", PyStr(uuid))
    /\ UNCHANGED <<node, node_label>>
    /\ UNCHANGED <<procs, overlap, submission, raw_input, utils>>

(***************************************************************************)
(* Calculation.__init__ without a uuid: a new calculation                  *)
(***************************************************************************)
NoCall == [fn |-> "none"]

KwArgs == {PyNone} \cup {PyInt(n) : n \in IntRange}

InitAttr(k, num_machines, num_cpus_per_machine) ==
    IF k = "state" THEN S_NEW ELSE
    IF k = "num_machines" /\ num_machines # PyNone THEN int(num_machines) ELSE
    IF k = "num_cpus_per_machine" /\ num_cpus_per_machine # PyNone
      THEN int(num_cpus_per_machine)
      ELSE Absent

Constructed(c, num_machines, num_cpus_per_machine) ==
    /\ attrs = [k \in Keys |-> InitAttr(k, num_machines, num_cpus_per_machine)]
    /\ computer = c
    /\ stored = FALSE
    /\ input_links = [l \in Labels |-> NoNode]
    /\ output_links = {}
    /\ last = [op |-> "__init__", arg |-> PyNone, res |-> "ok"]
    /\ procs = [p \in Procs |-> [pc |-> "idle", call |-> <<"none">>, res |-> "none"]]
    /\ overlap = FALSE
    /\ submission = [pc |-> "none", attempts |-> 0]
    /\ node_label = DefaultLabel
    /\ raw_input = NoFolder
    /\ utils = NoCall

Init ==
    \E c \in Computers \cup {NoComputer}, m \in KwArgs, n \in KwArgs :
        Constructed(c, m, n)

\* Calculation(computer=..., num_machines=..., num_cpus_per_machine=...) with
\* every argument given, or none
InitPlain ==
    \/ Constructed(NoComputer, PyNone, PyNone)
    \/ Constructed("localhost", PyInt(MaxMachines), PyInt(MaxMachines))

(***************************************************************************)
(* The calls of the model, by the part of the node they act on.            *)
(*                                                                         *)
(* The guards of every method read only the state attribute and the stored *)
(* flag, which _set_state and store() alone write.  The lifecycle writers, *)
(* the resource setters and the link methods write disjoint parts of the   *)
(* node, so each part is explored with _set_state and store() beside it.   *)
(***************************************************************************)
JobIdArgs == {PyInt(j) : j \in 1..MaxJobId}
WorkdirArgs == {PyStr("/scratch/run")}
RetrieveListArgs == {PyList(<<PyStr("aiida.out")>>), PyList(<<PyInt(0)>>), PyStr("aiida.out")}
SchedulerStateArgs == {PyStr("RUNNING")}
JobInfoArgs == {PyStr("jobinfo"), PyNone}
IntArgs == {PyInt(n) : n \in IntRange} \cup {PyStr("1"), PyStr("one"), PyNone}
SmallIntArgs == {PyInt(MaxMachines), PyStr("one")}
TextArgs == {PyStr("debug")}

StateCalls == \E s \in StateArgs : _set_state(s)

LifecycleCalls ==
    \/ \E j \in JobIdArgs : _set_job_id(j)
    \/ \E w \in WorkdirArgs : _set_remote_workdir(w)
    \/ \E r \in RetrieveListArgs : _set_retrieve_list(r)
    \/ \E s \in SchedulerStateArgs : _set_scheduler_state(s)
    \/ \E i \in JobInfoArgs : _set_last_jobinfo(i)

ResourceCalls ==
    \/ \E v \in TextArgs : set_queue_name(v)
    \/ \E v \in TextArgs : set_priority(v)
    \/ \E v \in SmallIntArgs : set_max_memory_kb(v)
    \/ \E v \in SmallIntArgs : set_max_wallclock_seconds(v)
    \/ \E v \in IntArgs : set_num_machines(v)
    \/ \E v \in IntArgs : set_num_cpus_per_machine(v)
    \/ \E c \in Computers : set_computer(c)

LinkCalls ==
    \/ \E n \in Nodes, l \in Labels : add_link_from(n, l)
    \/ \E n \in Nodes, l \in OutLabels : link_as_output(n, l)
    \/ \E n \in Nodes : use_code(n)

FolderCalls ==
    \/ \E f \in FolderPaths : _store_raw_input_folder(f)
    \/ raw_input_folder

LoadCalls ==
    \/ \E l \in LabelArgs : set_label(l)
    \/ \E u \in Uuids : __init__(u)

SubmitCalls ==
    \/ submit
    \/ \E o \in DelegationOutcomes : delegation_ends(o)
    \/ \E n \in {"data1"}, l \in {"structure"} : add_link_from(n, l)

\* the lifecycle of a calculation
Next == StateCalls \/ LifecycleCalls \/ store

Spec == InitPlain /\ [][Next]_vars

\* the links of a calculation
NextLinks == StateCalls \/ LinkCalls \/ store

SpecLinks == InitPlain /\ [][NextLinks]_vars

\* the resources of a calculation, and storing it
NextResources == StateCalls \/ ResourceCalls \/ store

SpecResources == Init /\ [][NextResources]_vars

\* two processes calling guarded writers while the state advances
NextConc ==
    \/ StateCalls
    \/ \E p \in Procs, c \in ConcCalls : Enter(p, c)
    \/ \E p \in Procs : Commit(p)

SpecConc == InitPlain /\ [][NextConc]_vars

\* submitting a calculation, valid or not
NextSubmit == StateCalls \/ SubmitCalls

SpecSubmit == Init /\ [][NextSubmit]_vars

\* the raw input folder of a calculation
NextFolder == StateCalls \/ FolderCalls

SpecFolder == InitPlain /\ [][NextFolder]_vars

\* objects made for a calculation that is stored
NextLoad == StateCalls \/ LoadCalls \/ set_computer("cluster") \/ store

SpecLoad == InitPlain /\ [][NextLoad]_vars

(***************************************************************************)
(* Properties                                                              *)
(*                                                                         *)
(* Every call records itself in last, so a step with last'.op = x is a     *)
(* call of x, made in the unprimed state.                                  *)
(***************************************************************************)
Terminal == {S_FINISHED, S_SUBMISSIONFAILED, S_RETRIEVALFAILED, S_PARSINGFAILED}
NonTerminal == {S_NEW, S_SUBMITTING, S_WITHSCHEDULER, S_RETRIEVING, S_PARSING}
ExecutionWindow == {S_SUBMITTING, S_RETRIEVING, S_PARSING}
Failed == {S_SUBMISSIONFAILED, S_RETRIEVALFAILED, S_PARSINGFAILED}

\* the rows of the transition table
TransitionTable ==
    {<<S_NEW, S_SUBMITTING>>, <<S_SUBMITTING, S_WITHSCHEDULER>>,
     <<S_WITHSCHEDULER, S_RETRIEVING>>, <<S_RETRIEVING, S_PARSING>>,
     <<S_PARSING, S_FINISHED>>}
      \cup (NonTerminal \X Failed)

\* C1, as stated: add_link_from with a data or code source succeeds if and
\* only if the state is NEW; in any other state it fails with
\* ModificationNotAllowed and input_links is unchanged.
C1_AddLinkIffNew ==
    [][(last'.op = "add_link_from" /\ last'.arg[2] \in DataNodes \cup CodeNodes)
         => /\ (last'.res = "ok") <=> (get_state = S_NEW)
            /\ get_state # S_NEW
                 => /\ last'.res = "ModificationNotAllowed"
                    /\ input_links' = input_links]_vars

\* C1, amended: add_link_from with a data or code source succeeds if and only
\* if the state is NEW and the label is unbound or bound to that same source;
\* it then binds the label to the source.  Otherwise it fails with
\* ModificationNotAllowed and input_links is unchanged.
C1_AddLinkIffNewAndLabelFree ==
    [][(last'.op = "add_link_from" /\ last'.arg[2] \in DataNodes \cup CodeNodes)
         => /\ (last'.res = "ok")
                 <=> (get_state = S_NEW /\ input_links[last'.arg[3]] \in {NoNode, last'.arg[2]})
            /\ last'.res = "ok"
                 => input_links' = [input_links EXCEPT ![last'.arg[3]] = last'.arg[2]]
            /\ last'.res # "ok"
                 => /\ last'.res = "ModificationNotAllowed"
                    /\ input_links' = input_links]_vars

\* an input link was refused outside NEW, and the links made in NEW are there
C1_Witness ==
    /\ last.op = "add_link_from"
    /\ last.res = "ModificationNotAllowed"
    /\ last.arg[2] \in DataNodes
    /\ get_state = S_WITHSCHEDULER
    /\ input_links["structure"] = "data1"
    /\ input_links["code"] = "code1"

WellFormedWrite(call) ==
    call.op = "_set_retrieve_list" => IsListOfStrings(call.arg)

\* C2: _set_job_id, _set_remote_workdir and _set_retrieve_list, given a
\* well-formed value, succeed if and only if the state is SUBMITTING; in every
\* other state they fail with ModificationNotAllowed and write nothing.
C2_WritableIffSubmitting ==
    [][(/\ last'.op \in {"_set_job_id", "_set_remote_workdir", "_set_retrieve_list"}
        /\ WellFormedWrite(last'))
         => /\ (last'.res = "ok") <=> (get_state = S_SUBMITTING)
            /\ get_state # S_SUBMITTING
                 => /\ last'.res = "ModificationNotAllowed"
                    /\ attrs' = attrs]_vars

\* a job id was written, as text, while SUBMITTING
C2_Witness ==
    /\ last.op = "_set_job_id"
    /\ last.res = "ok"
    /\ get_state = S_SUBMITTING
    /\ get_job_id = PyStr("2")
    /\ get_remote_workdir # PyNone
    /\ get_retrieve_list # PyNone

C4_TransitionsFollowTable ==
    [][get_state' # get_state => <<get_state, get_state'>> \in TransitionTable]_vars

\* C5: once the state is FINISHED or a *_FAILED value it never changes.
C5_TerminalIsPermanent ==
    [][(get_state \in Terminal) => (get_state' = get_state)]_vars

\* C6: in a terminal state every lifecycle writer, _set_scheduler_state and
\* _set_last_jobinfo included, fails with ModificationNotAllowed and leaves the
\* attributes as they were.
C6_NoWriteInTerminal ==
    [][(/\ get_state \in Terminal
        /\ last'.op \in {"_set_job_id", "_set_remote_workdir", "_set_retrieve_list",
                         "_set_scheduler_state", "_set_last_jobinfo"})
         => /\ last'.res = "ModificationNotAllowed"
            /\ attrs' = attrs]_vars

\* both processes have finished a _set_job_id, with different values, and
\* were inside the call at the same time
ConcurrentJobIdWrites ==
    /\ overlap
    /\ \A p \in Procs : procs[p].pc = "done" /\ procs[p].call[1] = "_set_job_id"
    /\ procs["user"].call # procs["daemon"].call

\* C7: of two concurrent _set_job_id calls with different values exactly one
\* succeeds, the other observes ModificationNotAllowed, and job_id holds the
\* value of the one that succeeded.
C7_ExactlyOneWriterWins ==
    ConcurrentJobIdWrites
      => \E w \in Procs :
            /\ procs[w].res = "ok"
            /\ get_job_id = unicode(procs[w].call[2])
            /\ \A q \in Procs \ {w} : procs[q].res = "ModificationNotAllowed"

\* C8: a guarded write is committed only in the state its guard requires:
\* job_id and remote_workdir change only while SUBMITTING, an input link is
\* added only while NEW, an output link only in the execution window.
C8_WriteOnlyInGuardedState ==
    [][/\ attrs'["job_id"] # attrs["job_id"] => get_state = S_SUBMITTING
       /\ attrs'["remote_workdir"] # attrs["remote_workdir"] => get_state = S_SUBMITTING
       /\ input_links' # input_links => get_state = S_NEW
       /\ output_links' # output_links => get_state \in ExecutionWindow]_vars

ResourceSetters ==
    {"set_queue_name", "set_priority", "set_max_memory_kb",
     "set_max_wallclock_seconds", "set_num_machines", "set_num_cpus_per_machine"}

\* the value passes the setter's own conversion
WellFormedResource(call) ==
    call.op \in {"set_queue_name", "set_priority"} \/ int(call.arg)[1] # "raise"

\* C9: on a stored calculation no attribute outside state, job_id,
\* scheduler_state, last_jobinfo, remote_workdir and retrieve_list changes, and
\* every resource setter fails, with FrozenAttributeError when its value is
\* well-formed.
C9_FrozenOnceStored ==
    [][stored
         => /\ \A k \in Keys \ {"state", "job_id", "scheduler_state", "last_jobinfo",
                               "remote_workdir", "retrieve_list"} :
                  attrs'[k] = attrs[k]
            /\ last'.op \in ResourceSetters
                 => /\ last'.res # "ok"
                    /\ WellFormedResource(last') => last'.res = "FrozenAttributeError"]_vars

\* set_num_machines was refused on a stored calculation, whose value stays
C9_Witness ==
    /\ stored
    /\ last.op = "set_num_machines"
    /\ last.arg = PyInt(0)
    /\ last.res = "FrozenAttributeError"
    /\ get_num_machines = PyInt(MaxMachines)

PositiveInt(v) == v[1] = "int" /\ v[2] > 0

\* C10: store() that raises ValidationError leaves stored false and the
\* attributes, the computer and the links as they were; stored becomes true
\* only by a store() made when the state is in the enumeration and both
\* resource counts are positive integers, and that store() changes nothing else.
C10_StoreAllOrNothing ==
    [][/\ (last'.op = "store" /\ last'.res = "ValidationError")
            => ~stored' /\ node' = node
       /\ stored' # stored
            => /\ last'.op = "store" /\ last'.res = "ok"
               /\ stored'
               /\ get_state \in calc_states
               /\ PositiveInt(attrs["num_machines"])
               /\ PositiveInt(attrs["num_cpus_per_machine"])
               /\ <<attrs', computer', input_links', output_links'>>
                    = <<attrs, computer, input_links, output_links>>]_vars

\* store() was refused for a CPU count of zero, and the node is not stored
C10_Witness ==
    /\ last.op = "store"
    /\ last.res = "ValidationError"
    /\ ~stored
    /\ get_num_machines = PyInt(MaxMachines)
    /\ get_num_cpus_per_machine = PyInt(0)

(***************************************************************************)
(* validate()                                                              *)
(***************************************************************************)
ValidCounts ==
    /\ PositiveInt(attrs["num_machines"])
    /\ PositiveInt(attrs["num_cpus_per_machine"])

\* C11: validate() succeeds on a calculation with a computer and positive
\* numbers of machines and of CPUs per machine; on a calculation with no
\* computer it raises the ValidationError of the missing computer, whatever
\* the other fields are.
C11_ValidateNeedsComputer ==
    /\ (computer # NoComputer /\ get_state \in calc_states /\ ValidCounts)
         => validate = "ok"
    /\ computer = NoComputer => validate = "You did not specify any computer"

\* the conditions of validate() in their order: computer, state, machines, CPUs
FirstViolated ==
    IF computer = NoComputer THEN "You did not specify any computer" ELSE
    IF get_state \notin calc_states THEN "Calculation state is not valid" ELSE
    IF ~PositiveInt(attrs["num_machines"])
      THEN "The number of machines must be specified and must be positive" ELSE
    IF ~PositiveInt(attrs["num_cpus_per_machine"])
      THEN "The number of CPUs per machine must be specified and must be positive"
      ELSE "ok"

\* C12: validate() succeeds exactly when the computer is set, the state is
\* one of the enumeration and both counts are positive integers; otherwise
\* its error is that of the first condition violated, in the order computer,
\* state, machines, CPUs.
C12_ValidateFirstViolated ==
    /\ validate = "ok" <=> (computer # NoComputer /\ get_state \in calc_states
                              /\ ValidCounts)
    /\ validate = FirstViolated

(***************************************************************************)
(* Input links, continued                                                  *)
(***************************************************************************)
\* C13: in NEW, with label L bound to an input, add_link_from(source2, L)
\* succeeds exactly when source2 is the source L is bound to, and then leaves
\* the input links as they were; for another source it raises
\* ModificationNotAllowed and L stays bound to the first source.
C13_RebindSameSourceOnly ==
    [][(/\ last'.op = "add_link_from"
        /\ last'.arg[2] \in DataNodes \cup CodeNodes
        /\ get_state = S_NEW
        /\ input_links[last'.arg[3]] # NoNode)
         => /\ (last'.res = "ok") <=> (last'.arg[2] = input_links[last'.arg[3]])
            /\ last'.res # "ok" => last'.res = "ModificationNotAllowed"
            /\ input_links' = input_links]_vars

\* in NEW, data2 was refused under the label bound to data1
C13_Witness ==
    /\ last = [op |-> "add_link_from", arg |-> LinkArg("data2", "structure"),
               res |-> "ModificationNotAllowed"]
    /\ get_state = S_NEW
    /\ input_links["structure"] = "data1"

\* C14: on a stored calculation the input links only grow: a bound label is
\* never unbound and never bound to another source, whatever is called
\* (add_link_from, use_code, changes of state), the label "code" at a second
\* use_code with another code included.
C14_InputLinksAppendOnly ==
    [][stored => \A l \in Labels :
                    input_links[l] # NoNode => input_links'[l] = input_links[l]]_vars

\* C18: add_link_from with a source that is neither data nor code raises
\* ValueError in every state, and the input links stay as they were.
C18_ForeignSourceValueError ==
    [][(last'.op = "add_link_from" /\ last'.arg[2] \notin DataNodes \cup CodeNodes)
         => /\ last'.res = "ValueError"
            /\ node' = node]_vars

\* a calculation was refused as a source outside NEW, by its kind
C18_Witness ==
    /\ last = [op |-> "add_link_from", arg |-> LinkArg("calc2", "structure"),
               res |-> "ValueError"]
    /\ get_state = S_RETRIEVING

\* C19: can_link_as_output with a destination that is not data raises
\* ValueError in every state, SUBMITTING, RETRIEVING and PARSING included: the
\* kind of the destination is tested before the state.
C19_NonDataOutputValueError ==
    [][(last'.op = "link_as_output" /\ last'.arg[2] \notin DataNodes)
         => /\ last'.res = "ValueError"
            /\ node' = node]_vars

\* a code was refused as an output outside the window, by its kind
C19_Witness ==
    /\ last = [op |-> "link_as_output", arg |-> LinkArg("code1", "remote_folder"),
               res |-> "ValueError"]
    /\ get_state = S_FINISHED

(***************************************************************************)
(* submit()                                                                *)
(***************************************************************************)
\* C15: submit() on a calculation that is not NEW, or whose validate() fails,
\* fails without delegating and leaves the calculation as it was; on a valid
\* NEW calculation it sets the state to SUBMITTING, and only then delegates.
C15_SubmitNeedsValidNew ==
    [][/\ (last'.op = "submit" /\ last'.res = "delegating")
            => /\ get_state = S_NEW
               /\ ValidCounts
               /\ get_state' = S_SUBMITTING
               /\ submission'.attempts = 0
       /\ (last'.op = "submit"
             /\ last'.res \in {"ModificationNotAllowed", "ValidationError"})
            => /\ get_state # S_NEW \/ ~ValidCounts
               /\ node' = node
               /\ submission' = submission
       /\ submission'.attempts > submission.attempts
            => /\ submission.pc = "delegating"
               /\ last'.op = "submit"]_vars

\* a valid NEW calculation is SUBMITTING and its delegation is under way
C15_Witness ==
    /\ last.op = "submit"
    /\ last.res = "delegating"
    /\ get_state = S_SUBMITTING
    /\ submission = [pc |-> "delegating", attempts |-> 0]

\* C16: when the delegation fails the state becomes SUBMISSION_FAILED, the
\* error reaches the caller, one delegation was attempted for the call, and
\* every add_link_from that follows fails.
C16_FailedSubmissionIsFinal ==
    [][/\ (last'.op = "submit" /\ last'.res = "SubmissionError")
            => /\ get_state' = S_SUBMISSIONFAILED
               /\ submission'.attempts = 1
       /\ (submission.pc = "failed" /\ last'.op = "add_link_from")
            => last'.res # "ok"]_vars

\* C17: a calculation leaves NEW through submit() only; no other call, a
\* direct _set_state among them, moves it out of NEW.
C17_OnlySubmitLeavesNew ==
    [][(get_state = S_NEW /\ get_state' # S_NEW) => last'.op = "submit"]_vars

(***************************************************************************)
(* Writers while the results are retrieved                                 *)
(***************************************************************************)
\* C20 as stated: in RETRIEVING, _set_remote_workdir and _set_retrieve_list
\* with a well-formed value succeed.
C20_WritableInRetrieving ==
    [][(/\ last'.op \in {"_set_remote_workdir", "_set_retrieve_list"}
        /\ WellFormedWrite(last')
        /\ get_state = S_RETRIEVING)
         => last'.res = "ok"]_vars

\* C20: in RETRIEVING, _set_remote_workdir and _set_retrieve_list raise
\* ModificationNotAllowed and leave the calculation as it was.
C20_NotWritableInRetrieving ==
    [][(/\ last'.op \in {"_set_remote_workdir", "_set_retrieve_list"}
        /\ get_state = S_RETRIEVING)
         => /\ last'.res = "ModificationNotAllowed"
            /\ node' = node]_vars

\* a well-formed write of the remote work directory was refused in RETRIEVING
C20_Witness ==
    /\ last.op = "_set_remote_workdir"
    /\ last.res = "ModificationNotAllowed"
    /\ get_state = S_RETRIEVING
    /\ get_remote_workdir = PyNone

(***************************************************************************)
(* The job id and the scheduler                                            *)
(***************************************************************************)
\* C21 as stated: the step from SUBMITTING to WITHSCHEDULER leaves the job id
\* set, and a _set_job_id made once the state is WITHSCHEDULER succeeds.
C21_JobIdSetWithScheduler ==
    [][/\ (get_state = S_SUBMITTING /\ get_state' = S_WITHSCHEDULER)
            => get_job_id' # PyNone
       /\ (last'.op = "_set_job_id" /\ get_state = S_WITHSCHEDULER)
            => last'.res = "ok"]_vars

\* C21: the job id is written while the state is SUBMITTING only, before the
\* step to WITHSCHEDULER; a _set_job_id made once the state is WITHSCHEDULER
\* raises ModificationNotAllowed and leaves the calculation as it was.
C21_JobIdWrittenWhileSubmitting ==
    [][/\ (last'.op = "_set_job_id" /\ get_state = S_WITHSCHEDULER)
            => /\ last'.res = "ModificationNotAllowed"
               /\ node' = node
       /\ get_job_id' # get_job_id
            => /\ last'.op = "_set_job_id"
               /\ get_state = S_SUBMITTING
               /\ get_state' = S_SUBMITTING]_vars

\* with the scheduler, a second job id was refused and the first one is kept
C21_Witness ==
    /\ last = [op |-> "_set_job_id", arg |-> PyInt(MaxJobId),
               res |-> "ModificationNotAllowed"]
    /\ get_state = S_WITHSCHEDULER
    /\ get_job_id = unicode(PyInt(1))

NamedAttribute(op) ==
    IF op = "_set_scheduler_state" THEN "scheduler_state" ELSE "last_jobinfo"

\* C22: in NEW, SUBMITTING, WITHSCHEDULER, RETRIEVING and PARSING, on a
\* calculation stored or not, _set_scheduler_state and _set_last_jobinfo
\* succeed and change the attribute they name and nothing else.
C22_MirrorsWritableBeforeTheEnd ==
    [][(/\ last'.op \in {"_set_scheduler_state", "_set_last_jobinfo"}
        /\ get_state \in NonTerminal)
         => /\ last'.res = "ok"
            /\ attrs'[NamedAttribute(last'.op)] # Absent
            /\ \A k \in Keys \ {NamedAttribute(last'.op)} : attrs'[k] = attrs[k]
            /\ <<computer', stored', input_links', output_links'>>
                 = <<computer, stored, input_links, output_links>>]_vars

\* the scheduler state of a stored calculation was written while PARSING
C22_Witness ==
    /\ last.op = "_set_scheduler_state"
    /\ last.res = "ok"
    /\ stored
    /\ get_state = S_PARSING
    /\ get_scheduler_state = PyStr("RUNNING")

(***************************************************************************)
(* The computer                                                            *)
(***************************************************************************)
\* C23: set_computer on a stored calculation raises ModificationNotAllowed
\* and leaves the computer as it was, and a computer once set is never
\* replaced by another one, whatever is called.
C23_ComputerSetOnce ==
    [][/\ (last'.op = "set_computer" /\ stored)
            => /\ last'.res = "ModificationNotAllowed"
               /\ computer' = computer
       /\ computer # NoComputer => computer' = computer]_vars

(***************************************************************************)
(* The state attribute                                                     *)
(***************************************************************************)
\* C24: a calculation constructed without a uuid is NEW; the state is a
\* member of calc_states in every reachable state; _set_state with a value
\* outside calc_states raises ValueError and leaves the state as it was.
C24_StateInEnumeration ==
    /\ []((last.op = "__init__" /\ last.arg = PyNone) => get_state = S_NEW)
    /\ [](get_state \in calc_states)
    /\ [][(last'.op = "_set_state" /\ last'.arg \notin calc_states)
            => /\ last'.res = "ValueError"
               /\ node' = node]_vars

\* a state outside the enumeration was refused and RETRIEVING is kept
C24_Witness ==
    /\ last = [op |-> "_set_state", arg |-> PyStr("QUEUED"), res |-> "ValueError"]
    /\ get_state = S_RETRIEVING

(***************************************************************************)
(* The raw input folder                                                    *)
(***************************************************************************)
\* C25: outside SUBMITTING _store_raw_input_folder raises
\* ModificationNotAllowed and the 'raw_input' subfolder is neither created
\* nor replaced; the subfolder is absent at construction and changes in
\* SUBMITTING only, so that the property raw_input_folder, which raises
\* NotExistent exactly when the subfolder is absent, raises it for a
\* calculation that never was in SUBMITTING.
C25_RawInputOnlyWhileSubmitting ==
    /\ [](last.op = "__init__" => raw_input = NoFolder)
    /\ [][/\ (last'.op = "_store_raw_input_folder" /\ get_state # S_SUBMITTING)
               => /\ last'.res = "ModificationNotAllowed"
                  /\ raw_input' = raw_input
                  /\ node' = node
          /\ raw_input' # raw_input
               => /\ get_state = S_SUBMITTING
                  /\ last'.op = "_store_raw_input_folder"
          /\ last'.op = "raw_input_folder"
               => ((last'.res = "NotExistent") <=> (raw_input = NoFolder))]_vars

\* the folder was refused while RETRIEVING and there is no subfolder
C25_Witness ==
    /\ last.op = "_store_raw_input_folder"
    /\ last.res = "ModificationNotAllowed"
    /\ get_state = S_RETRIEVING
    /\ raw_input = NoFolder

(***************************************************************************)
(* Rejected writes                                                         *)
(***************************************************************************)
\* C26: _set_retrieve_list outside SUBMITTING raises ModificationNotAllowed,
\* whatever the value; in SUBMITTING with a value that is not a list or tuple
\* of strings it raises ValueError; in both cases every attribute keeps its
\* value.
C26_RejectedWriteChangesNothing ==
    [][last'.op = "_set_retrieve_list"
         => /\ get_state # S_SUBMITTING
                 => /\ last'.res = "ModificationNotAllowed"
                    /\ node' = node
            /\ (get_state = S_SUBMITTING /\ ~IsListOfStrings(last'.arg))
                 => /\ last'.res = "ValueError"
                    /\ node' = node]_vars

\* in SUBMITTING a list holding an integer was refused, the list written
\* before is kept
C26_Witness ==
    /\ last = [op |-> "_set_retrieve_list", arg |-> PyList(<<PyInt(0)>>),
               res |-> "ValueError"]
    /\ get_state = S_SUBMITTING
    /\ get_retrieve_list = PyList(<<PyStr("aiida.out")>>)

Getters ==
    {<<"state", get_state>>, <<"job_id", get_job_id>>,
     <<"scheduler_state", get_scheduler_state>>,
     <<"remote_workdir", get_remote_workdir>>,
     <<"retrieve_list", get_retrieve_list>>,
     <<"queue_name", get_queue_name>>, <<"priority", get_priority>>,
     <<"max_memory_kb", get_max_memory_kb>>,
     <<"max_wallclock_seconds", get_max_wallclock_seconds>>,
     <<"num_machines", get_num_machines>>,
     <<"num_cpus_per_machine", get_num_cpus_per_machine>>}

C29_LoadWritesNothing ==
    /\ []((last.op = "__init__" /\ last.arg = PyNone)
            => get_state = S_NEW /\ node_label = DefaultLabel /\ ~stored)
    /\ [][(last'.op = "__init__" /\ last'.arg # PyNone)
            => /\ node' = node
               /\ node_label' = node_label]_vars

\* an object was made for a stored, finished calculation with its own label
C29_Witness ==
    /\ last = [op |-> "__init__", arg |-> PyStr("uuid1"), res |-> "ok"]
    /\ stored
    /\ get_state = S_FINISHED
    /\ node_label = "Test QE pw.x"
    /\ computer = "cluster"

(***************************************************************************)
(* aiida.common.utils.  The functions are run a step at a time on their    *)
(* own; strings are tuples of characters.                                  *)
(***************************************************************************)
\* the calculation takes no part in a call of aiida.common.utils
UtilsInit(u) ==
    /\ attrs = [k \in Keys |-> InitAttr(k, PyNone, PyNone)]
    /\ computer = NoComputer
    /\ stored = FALSE
    /\ input_links = [l \in Labels |-> NoNode]
    /\ output_links = {}
    /\ last = [op |-> "__init__", arg |-> PyNone, res |-> "ok"]
    /\ procs = [p \in Procs |-> [pc |-> "idle", call |-> <<"none">>, res |-> "none"]]
    /\ overlap = FALSE
    /\ submission = [pc |-> "none", attempts |-> 0]
    /\ node_label = DefaultLabel
    /\ raw_input = NoFolder
    /\ utils = u

\* the sequences over S of length at most n
RECURSIVE SeqsUpTo(_, _)
SeqsUpTo(S, n) ==
    IF n = 0 THEN {<<>>}
    ELSE SeqsUpTo(S, n - 1)
           \cup {Append(s, x) : s \in {q \in SeqsUpTo(S, n - 1) : Len(q) = n - 1}, x \in S}

\* x in a Python list
In(x, list) == \E i \in 1..Len(list) : list[i] = x

(***************************************************************************)
(* get_unique_filename                                                     *)
(***************************************************************************)
MaxNames == 3    \* list_of_filenames holds at most MaxNames names

\* str.rfind, 1-based; 0 when c is not in p
rfind(p, c) ==
    IF \E i \in 1..Len(p) : p[i] = c
      THEN CHOOSE i \in 1..Len(p) : p[i] = c /\ \A j \in (i + 1)..Len(p) : p[j] # c
      ELSE 0

\* os.path.splitext: the extension starts at the last dot of the last path
\* component; dots that lead the component do not start an extension
splitext(p) ==
    LET sepIndex == rfind(p, "/")
        dotIndex == rfind(p, ".")
    IN  IF dotIndex > sepIndex
           /\ \E i \in (sepIndex + 1)..(dotIndex - 1) : p[i] # "."
          THEN <<SubSeq(p, 1, dotIndex - 1), SubSeq(p, dotIndex, Len(p))>>
          ELSE <<p, <<>>>>

Digits == <<"0", "1", "2", "3", "4", "5", "6", "7", "8", "9">>

\* "{:d}".format(k), k >= 0
RECURSIVE format_d(_)
format_d(k) ==
    IF k < 10 THEN <<Digits[k + 1]>>
    ELSE format_d(k \div 10) \o <<Digits[(k % 10) + 1]>>

\* "{:s}-{:d}{:s}".format(basename, append_int, ext)
new_filename(basename, append_int, ext) ==
    basename \o <<"-">> \o format_d(append_int) \o ext

\* the counter started at 0
get_unique_filename_from_zero ==
    /\ utils.fn = "get_unique_filename"
    /\ UNCHANGED calculation
    /\ \/ /\ utils.pc = "call"
          /\ utils' = IF ~In(utils.filename, utils.list_of_filenames)
                        THEN [utils EXCEPT !.pc = "return", !.res = utils.filename]
                        ELSE [utils EXCEPT !.pc = "while", !.append_int = 0]
       \/ /\ utils.pc = "while"
          /\ LET name == new_filename(splitext(utils.filename)[1], utils.append_int,
                                      splitext(utils.filename)[2])
             IN  utils' = IF ~In(name, utils.list_of_filenames)
                            THEN [utils EXCEPT !.pc = "return", !.res = name]
                            ELSE [utils EXCEPT !.append_int = utils.append_int + 1]

\* one step of get_unique_filename: the test of filename, or one turn of the
\* "while True" loop
get_unique_filename ==
    /\ utils.fn = "get_unique_filename"
    /\ UNCHANGED calculation
    /\ \/ /\ utils.pc = "call"
          /\ utils' = IF ~In(utils.filename, utils.list_of_filenames)
                        THEN [utils EXCEPT !.pc = "return", !.res = utils.filename]
                        ELSE [utils EXCEPT !.pc = "while", !.append_int = 1]
       \/ /\ utils.pc = "while"
          /\ LET name == new_filename(splitext(utils.filename)[1], utils.append_int,
                                      splitext(utils.filename)[2])
             IN  utils' = IF ~In(name, utils.list_of_filenames)
                            THEN [utils EXCEPT !.pc = "return", !.res = name]
                            ELSE [utils EXCEPT !.append_int = utils.append_int + 1]

Filenames == {<<"a", ".", "t">>, <<"a">>, <<".", "a">>, <<"d", ".", "x", "/", "a">>}

Names ==
    {<<"a", ".", "t">>, <<"a", "-", "1", ".", "t">>, <<"a", "-", "2", ".", "t">>,
     <<"a">>, <<"a", "-", "1">>, <<".", "a">>, <<".", "a", "-", "1">>,
     <<"d", ".", "x", "/", "a">>, <<"d", ".", "x", "/", "a", "-", "1">>}

InitUniqueFilename ==
    \E f \in Filenames, names \in SeqsUpTo(Names, MaxNames) :
        UtilsInit([fn |-> "get_unique_filename", pc |-> "call", filename |-> f,
                   list_of_filenames |-> names, append_int |-> 0, res |-> <<>>])

NextUniqueFilename == get_unique_filename

SpecUniqueFilename ==
    InitUniqueFilename /\ [][NextUniqueFilename]_vars /\ WF_vars(NextUniqueFilename)

\* filename with k put before its extension
Numbered(k) ==
    new_filename(splitext(utils.filename)[1], k, splitext(utils.filename)[2])

\* C31: get_unique_filename(filename, names) returns, and what it returns is
\* not in names: filename when filename is not in names, otherwise
\* '<base>-<k><ext>' for the smallest k >= 1 whose name is not in names.
C31_UniqueFilename ==
    /\ <>(utils.pc = "return")
    /\ [](utils.pc = "return"
            => /\ ~In(utils.res, utils.list_of_filenames)
               /\ ~In(utils.filename, utils.list_of_filenames)
                    => utils.res = utils.filename
               /\ In(utils.filename, utils.list_of_filenames)
                    => \E k \in 1..(Len(utils.list_of_filenames) + 1) :
                          /\ utils.res = Numbered(k)
                          /\ \A j \in 1..(k - 1) :
                                In(Numbered(j), utils.list_of_filenames))

\* a.t, a-1.t and a-2.t are taken, in another order: a-3.t is returned
C31_Witness ==
    /\ utils.fn = "get_unique_filename"
    /\ utils.pc = "return"
    /\ utils.list_of_filenames
         = <<<<"a", "-", "2", ".", "t">>, <<"a", ".", "t">>, <<"a", "-", "1", ".", "t">>>>
    /\ utils.filename = <<"a", ".", "t">>
    /\ utils.res = <<"a", "-", "3", ".", "t">>

(***************************************************************************)
(* grouper                                                                 *)
(***************************************************************************)
MaxGroup == 3    \* n is drawn from 0..MaxGroup
MaxItems == 4    \* the iterable holds at most MaxItems elements

\* tuple(itertools.islice(it, n)): the next n elements, or those that are left
islice(it, n) == SubSeq(it, 1, IF n < Len(it) THEN n ELSE Len(it))

\* a short last chunk filled up to n with None, as izip_longest does
grouper_filled ==
    /\ utils.fn = "grouper"
    /\ utils.pc = "running"
    /\ UNCHANGED calculation
    /\ LET chunk == islice(utils.it, utils.n)
           fill == [i \in 1..(utils.n - Len(chunk)) |-> "None"]
       IN  utils' = IF chunk = <<>>
                      THEN [utils EXCEPT !.pc = "returned"]
                      ELSE [utils EXCEPT
                              !.it = SubSeq(utils.it, Len(chunk) + 1, Len(utils.it)),
                              !.yielded = Append(utils.yielded, chunk \o fill)]

\* the generator resumed once: it yields the next chunk, or returns
grouper ==
    /\ utils.fn = "grouper"
    /\ utils.pc = "running"
    /\ UNCHANGED calculation
    /\ LET chunk == islice(utils.it, utils.n)
       IN  utils' = IF chunk = <<>>
                      THEN [utils EXCEPT !.pc = "returned"]
                      ELSE [utils EXCEPT
                              !.it = SubSeq(utils.it, Len(chunk) + 1, Len(utils.it)),
                              !.yielded = Append(utils.yielded, chunk)]

Items == {"x", "y"}

InitGrouper ==
    \E n \in 0..MaxGroup, iterable \in SeqsUpTo(Items, MaxItems) :
        UtilsInit([fn |-> "grouper", pc |-> "running", n |-> n,
                   iterable |-> iterable, it |-> iterable, yielded |-> <<>>])

NextGrouper == grouper

SpecGrouper == InitGrouper /\ [][NextGrouper]_vars /\ WF_vars(NextGrouper)

\* the elements of the tuples of q, in order
RECURSIVE Concatenation(_)
Concatenation(q) ==
    IF q = <<>> THEN <<>> ELSE Head(q) \o Concatenation(Tail(q))

\* C32: for n >= 1 grouper(n, iterable) comes to its end, and the tuples it
\* yielded, put one after the other, are the elements of the iterable in
\* order; every tuple but the last has n elements, the last has between 1
\* and n, none is empty, and an empty iterable yields nothing.
C32_GrouperPartitions ==
    /\ <>(utils.pc = "returned")
    /\ [](utils.n >= 1
            => /\ Concatenation(utils.yielded) \o utils.it = utils.iterable
               /\ utils.pc = "returned" => utils.it = <<>>
               /\ \A i \in 1..Len(utils.yielded) :
                     /\ Len(utils.yielded[i]) >= 1
                     /\ Len(utils.yielded[i]) <= utils.n
                     /\ i < Len(utils.yielded) => Len(utils.yielded[i]) = utils.n
               /\ utils.iterable = <<>> => utils.yielded = <<>>)

\* four elements by three: a tuple of three, then a tuple of one
C32_Witness ==
    /\ utils.fn = "grouper"
    /\ utils.pc = "returned"
    /\ utils.n = 3
    /\ utils.iterable = <<"x", "y", "y", "x">>
    /\ utils.yielded = <<<<"x", "y", "y">>, <<"x">>>>

(***************************************************************************)
(* ask_question                                                            *)
(***************************************************************************)
Replies == {"", "5", "7", "12", "2.5", "x"}
Choices == {"", "y", "no", "maybe"}
ReplyTypes == {"int", "float", "str"}

\* int(answer), float(answer): the value, or the ValueError raised
parse_reply(reply_type, answer) ==
    IF reply_type = "int"
      THEN IF answer \in {"5", "7", "12"} THEN <<"int", answer>> ELSE <<"raise", "ValueError">>
      ELSE IF reply_type = "float"
             THEN IF answer \in {"5", "7", "12"} THEN <<"float", answer, "0">>
                  ELSE IF answer = "2.5" THEN <<"float", "2", "5">>
                       ELSE <<"raise", "ValueError">>
             ELSE <<"raise", "ValueError">>

\* query_string(question, ""): the reply, or None for an empty reply; then
\* ask_question up to its next question
query_string(reply) ==
    /\ utils.fn = "ask_question"
    /\ utils.pc = "query_string"
    /\ UNCHANGED calculation
    /\ LET answer == IF reply = "" THEN PyNone ELSE PyStr(reply)
       IN  IF answer = PyNone
             THEN utils' = [utils EXCEPT
                              !.answer = answer,
                              !.pc = IF utils.allow_none_as_answer
                                       THEN "query_yes_no" ELSE "query_string"]
             ELSE IF parse_reply(utils.reply_type, reply)[1] = "raise"
                    THEN utils' = [utils EXCEPT !.answer = answer]
                    ELSE utils' = [utils EXCEPT
                                     !.answer = answer,
                                     !.final_answer = parse_reply(utils.reply_type, reply),
                                     !.pc = "query_yes_no"]

\* query_yes_no(..., default="yes"): True, False, or the question again; then
\* ask_question up to its next question or its return
query_yes_no(choice) ==
    /\ utils.fn = "ask_question"
    /\ utils.pc = "query_yes_no"
    /\ UNCHANGED calculation
    /\ utils' = IF choice \in {"", "yes", "y", "ye"}
                  THEN [utils EXCEPT !.pc = "return"]
                  ELSE IF choice \in {"no", "n"}
                         THEN [utils EXCEPT !.pc = "query_string"]
                         ELSE utils

InitAskQuestion ==
    \E r \in ReplyTypes, a \in BOOLEAN :
        UtilsInit([fn |-> "ask_question", pc |-> "query_string", reply_type |-> r,
                   allow_none_as_answer |-> a, answer |-> PyNone,
                   final_answer |-> PyNone])

NextAskQuestion ==
    \/ \E reply \in Replies : query_string(reply)
    \/ \E choice \in Choices : query_yes_no(choice)

SpecAskQuestion == InitAskQuestion /\ [][NextAskQuestion]_vars

\* C33: what ask_question returns is the parse of the reply given last
\* before the confirming yes, None when that reply was empty; a value parsed
\* from a reply given earlier and rejected is not returned.
C33_ReturnsLastReply ==
    (utils.fn = "ask_question" /\ utils.pc = "return")
      => utils.final_answer
           = IF utils.answer = PyNone THEN PyNone
             ELSE parse_reply(utils.reply_type, utils.answer[2])

(***************************************************************************)
(* xyz_parser_iterator: the atom iterator of a frame                       *)
(***************************************************************************)
MaxAtoms == 2    \* natoms is drawn from 0..MaxAtoms, a block holds at most MaxAtoms + 1 entries

AllDigits(s) == \A d \in 1..Len(s) : \E c \in 1..Len(Digits) : Digits[c] = s[d]

\* ( \d*[\.]\d+ | \d+[\.]?\d* )
Mantissa(s) ==
    \E m \in 0..Len(s) :
        LET a == SubSeq(s, 1, m)
            b == SubSeq(s, m + 1, Len(s))
        IN  /\ AllDigits(a)
            /\ \/ /\ Len(b) >= 2
                  /\ b[1] = "."
                  /\ AllDigits(Tail(b))
               \/ /\ a # <<>>
                  /\ \/ b = <<>>
                     \/ /\ Len(b) >= 1
                        /\ b[1] = "."
                        /\ AllDigits(Tail(b))

\* (<marker><sign>?\d+)
Exponent(s, markers, signs) ==
    /\ Len(s) >= 2
    /\ s[1] \in markers
    /\ \/ AllDigits(Tail(s))
       \/ /\ Len(s) >= 3
          /\ s[2] \in signs
          /\ AllDigits(Tail(Tail(s)))

\* <sign>? <mantissa> <exponent>?
Number(s, leading, markers, signs) ==
    \E p \in 0..1, q \in 0..Len(s) :
        /\ p <= q
        /\ p = 1 => s[1] \in leading
        /\ Mantissa(SubSeq(s, p + 1, q))
        /\ \/ q = Len(s)
           \/ Exponent(SubSeq(s, q + 1, Len(s)), markers, signs)

\* the group z of pos_regex: [\-|\+]? (...) ([E | e][+|-]?\d+)?, where the
\* classes hold every character written between the brackets
pos_regex_z(s) == Number(s, {"-", "|", "+"}, {"E", " ", "|", "e"}, {"+", "|", "-"})

\* float(s) of a text without surrounding white space
float(s) ==
    IF Number(s, {"-", "+"}, {"E", "e"}, {"+", "-"})
      THEN <<"float", s>>
      ELSE <<"raise", "ValueError">>

\* BlockIterator.__next__ (and next, which calls it)
__next__ ==
    /\ utils.fn = "BlockIterator"
    /\ UNCHANGED calculation
    /\ IF utils._it = <<>>
         THEN utils' = [utils EXCEPT
                          !.res = IF utils._catom = utils._natoms
                                    THEN "StopIteration" ELSE "TypeError"]
         ELSE LET match == Head(utils._it)
                  _catom == utils._catom + 1
              IN  IF _catom > utils._natoms
                    THEN utils' = [utils EXCEPT
                                     !._it = Tail(utils._it),
                                     !._catom = _catom,
                                     !.res = "TypeError"]
                    ELSE IF float(match)[1] = "raise"
                           THEN utils' = [utils EXCEPT
                                            !._it = Tail(utils._it),
                                            !._catom = _catom,
                                            !.res = "ValueError"]
                           ELSE utils' = [utils EXCEPT
                                            !._it = Tail(utils._it),
                                            !._catom = _catom,
                                            !.returned = Append(utils.returned, float(match)),
                                            !.res = "return"]

\* texts of the last coordinate of an entry, as in the lines
\* "H 1.0 2.0 3.0", "H 1.0 2.0 -.5", "H 1.0 2.0 3.0e4", "H 1.0 2.0 3.0 4"
ZTexts ==
    { <<"3", ".", "0">>, <<"-", ".", "5">>, <<"3", ".", "0", "e", "4">>,
      <<"3", ".", "0", " ", "4">> }

\* a frame: natoms from the first line, and the entries pos_regex finds in
\* the positions block, each by its group z
InitBlockIterator ==
    \E natoms \in 0..MaxAtoms,
       positions \in SeqsUpTo({z \in ZTexts : pos_regex_z(z)}, MaxAtoms + 1) :
        UtilsInit([fn |-> "BlockIterator", _natoms |-> natoms,
                   positions |-> positions, _it |-> positions, _catom |-> 0,
                   returned |-> <<>>, res |-> "none"])

NextBlockIterator == __next__

SpecBlockIterator == InitBlockIterator /\ [][NextBlockIterator]_vars

\* C34: the atom iterator of a frame declaring natoms either yields natoms
\* entries and then stops, or raises TypeError (with fewer entries than
\* natoms on exhaustion, with more on entry natoms + 1); it never stops after
\* a number of entries other than natoms.
C34_NatomsEntriesOrTypeError ==
    utils.fn = "BlockIterator"
      => /\ utils.res \in {"none", "return", "StopIteration", "TypeError"}
         /\ utils.res = "StopIteration" => Len(utils.returned) = utils._natoms
         /\ utils.res = "TypeError" => Len(utils.positions) # utils._natoms
         /\ Len(utils.returned) <= utils._natoms

(***************************************************************************)
(* get_repository_folder: paths are tuples of components, "/" first when   *)
(* absolute                                                                *)
(***************************************************************************)
Unset == <<"unset">>                   \* aiida.settings has no REPOSITORY_PATH
NoEntry == <<"KeyError">>              \* the cache has no such key
cwd == <<"/", "cwd">>
RepositoryPaths == {<<"/", "repo">>, <<"aiida_repo">>}
SubfolderArgs == {PyNone, PyStr("sandbox"), PyStr("repository"), PyStr("other")}

\* os.path.abspath(path), for paths without "." and ".."
abspath(path) == IF path[1] = "/" THEN path ELSE cwd \o path

\* os.path.join(path, name), for a relative name
join(path, name) == Append(path, name)

\* os.path.isdir(path)
isdir(path) == abspath(path) \in utils.dirs

\* the lookup done again at every call
get_repository_folder_uncached(subfolder) ==
    /\ utils.fn = "get_repository_folder"
    /\ UNCHANGED calculation
    /\ LET REPOSITORY_PATH == utils.REPOSITORY_PATH
           called == [utils EXCEPT !.op = "get_repository_folder",
                                   !.subfolder = subfolder]
       IN  IF REPOSITORY_PATH = Unset \/ ~isdir(REPOSITORY_PATH)
             THEN utils' = [called EXCEPT !.res = <<"raise", "ConfigurationError">>]
             ELSE IF subfolder \in {PyNone, PyStr("sandbox"), PyStr("repository")}
                    THEN LET retval ==
                               IF subfolder = PyNone
                                 THEN abspath(REPOSITORY_PATH)
                                 ELSE abspath(join(REPOSITORY_PATH, subfolder[2]))
                         IN  utils' = [called EXCEPT
                                         !._repository_folder_cache[subfolder] = retval,
                                         !.res = retval]
                    ELSE utils' = [called EXCEPT !.res = <<"raise", "ValueError">>]

get_repository_folder(subfolder) ==
    /\ utils.fn = "get_repository_folder"
    /\ UNCHANGED calculation
    /\ LET REPOSITORY_PATH == utils.REPOSITORY_PATH
           called == [utils EXCEPT !.op = "get_repository_folder",
                                   !.subfolder = subfolder]
       IN  IF utils._repository_folder_cache[subfolder] # NoEntry
             THEN utils' = [called EXCEPT
                              !.res = utils._repository_folder_cache[subfolder]]
             ELSE IF REPOSITORY_PATH = Unset \/ ~isdir(REPOSITORY_PATH)
                    THEN utils' = [called EXCEPT
                                     !.res = <<"raise", "ConfigurationError">>]
                    ELSE IF subfolder \in {PyNone, PyStr("sandbox"), PyStr("repository")}
                           THEN LET retval ==
                                      IF subfolder = PyNone
                                        THEN abspath(REPOSITORY_PATH)
                                        ELSE abspath(join(REPOSITORY_PATH, subfolder[2]))
                                IN  utils' = [called EXCEPT
                                                !._repository_folder_cache[subfolder] = retval,
                                                !.res = retval]
                           ELSE utils' = [called EXCEPT
                                            !.res = <<"raise", "ValueError">>]

\* the settings module gets another REPOSITORY_PATH, or none
settings(path) ==
    /\ utils.fn = "get_repository_folder"
    /\ UNCHANGED calculation
    /\ utils' = [utils EXCEPT !.op = "settings", !.REPOSITORY_PATH = path]

\* a directory is created
mkdir(path) ==
    /\ utils.fn = "get_repository_folder"
    /\ UNCHANGED calculation
    /\ utils' = [utils EXCEPT !.op = "mkdir", !.dirs = @ \cup {abspath(path)}]

\* a directory is removed
rmdir(path) ==
    /\ utils.fn = "get_repository_folder"
    /\ UNCHANGED calculation
    /\ utils' = [utils EXCEPT !.op = "rmdir", !.dirs = @ \ {abspath(path)}]

\* the module is imported: the cache is empty
InitRepositoryFolder ==
    \E path \in RepositoryPaths \cup {Unset},
       dirs \in SUBSET {abspath(q) : q \in RepositoryPaths} :
        UtilsInit([fn |-> "get_repository_folder", op |-> "import",
                   _repository_folder_cache |-> [k \in SubfolderArgs |-> NoEntry],
                   REPOSITORY_PATH |-> path, dirs |-> dirs,
                   subfolder |-> PyNone, res |-> PyNone])

NextRepositoryFolder ==
    \/ \E subfolder \in SubfolderArgs : get_repository_folder(subfolder)
    \/ \E path \in RepositoryPaths \cup {Unset} : settings(path)
    \/ \E path \in RepositoryPaths : mkdir(path)
    \/ \E path \in RepositoryPaths : rmdir(path)

SpecRepositoryFolder == InitRepositoryFolder /\ [][NextRepositoryFolder]_vars

Cached(k) == utils._repository_folder_cache[k] # NoEntry
IsDirectory == utils.REPOSITORY_PATH # Unset /\ isdir(utils.REPOSITORY_PATH)
FolderKeys == {PyNone, PyStr("sandbox"), PyStr("repository")}

\* C35 as stated: every call with a subfolder other than None, "sandbox" and
\* "repository" raises ValueError, and every call for a key not yet cached
\* made while the repository path is not a directory raises
\* ConfigurationError.
C35_ValueErrorForOtherSubfolders ==
    [][(utils'.op = "get_repository_folder")
         => /\ utils'.subfolder \notin FolderKeys
                 => utils'.res = <<"raise", "ValueError">>
            /\ (~Cached(utils'.subfolder) /\ ~IsDirectory)
                 => utils'.res = <<"raise", "ConfigurationError">>]_vars

\* C35, amended: the cache holds only results of successful lookups for the
\* keys None, "sandbox" and "repository"; a call for a key that is not cached
\* raises ConfigurationError when the repository path is unset or not a
\* directory, whatever the subfolder, and otherwise ValueError when the
\* subfolder is none of the three keys, and neither adds a cache entry; a
\* cached key is never changed and every call with it returns the cached
\* value, whatever the repository path has become.
C35_CacheHoldsSuccessfulLookups ==
    /\ [](utils.fn = "get_repository_folder"
            => \A k \in SubfolderArgs :
                  Cached(k)
                    => /\ k \in FolderKeys
                       /\ \E q \in RepositoryPaths :
                             utils._repository_folder_cache[k]
                               = abspath(IF k = PyNone THEN q ELSE join(q, k[2])))
    /\ [][\A k \in SubfolderArgs :
             Cached(k) => utils'._repository_folder_cache[k]
                            = utils._repository_folder_cache[k]]_vars
    /\ [][(utils'.op = "get_repository_folder")
            => LET k == utils'.subfolder
               IN  /\ Cached(k) => utils'.res = utils._repository_folder_cache[k]
                   /\ (~Cached(k) /\ ~IsDirectory)
                        => /\ utils'.res = <<"raise", "ConfigurationError">>
                           /\ utils'._repository_folder_cache
                                = utils._repository_folder_cache
                   /\ (~Cached(k) /\ IsDirectory /\ k \notin FolderKeys)
                        => /\ utils'.res = <<"raise", "ValueError">>
                           /\ utils'._repository_folder_cache
                                = utils._repository_folder_cache
                   /\ (~Cached(k) /\ IsDirectory /\ k \in FolderKeys)
                        => utils'.res = utils'._repository_folder_cache[k]]_vars

\* "sandbox" was cached under /repo; the path is now a relative one that is
\* no directory, and the call still returns /repo/sandbox
C35_Witness ==
    /\ utils.fn = "get_repository_folder"
    /\ utils.op = "get_repository_folder"
    /\ utils.subfolder = PyStr("sandbox")
    /\ utils.REPOSITORY_PATH = <<"aiida_repo">>
    /\ utils.dirs = {}
    /\ utils.res = <<"/", "repo", "sandbox">>

====
